---- MODULE Spec2Model ----
(***************************************************************************)
(* Model of the bionic motor CAN codec: bionic_commands.py (the command    *)
(* encoder) and bionic_responses.py (the response decoder).                *)
(*                                                                         *)
(* Every function of the codec is pure, so a behaviour is one call: Init   *)
(* draws the function to call (op) and its arguments (arg), the function's *)
(* action computes the outcome (result), which is either the value the     *)
(* function returns or the exception it raises.                            *)
(*                                                                         *)
(* Representation of Python values:                                        *)
(*   bytes / List[int]  a sequence of integers 0..255 (Python index i is   *)
(*                      TLA+ index i+1: see At and Slice)                  *)
(*   int                an integer; the unbounded accumulator `command` of *)
(*                      the encoders is its binary expansion, a sequence   *)
(*                      of bits, most significant first (leading zeros     *)
(*                      allowed), because it holds up to 64 bits           *)
(*   float              a record [k, num, den]: a finite value num/den in  *)
(*                      lowest terms, an infinity or a NaN. Finite         *)
(*                      arithmetic is exact; the argument sets hold dyadic *)
(*                      values, for which the float results agree          *)
(*   dict               a function from its string keys                    *)
(***************************************************************************)
EXTENDS Integers, Sequences, FiniteSets, TLC

VARIABLES op, arg, pc, result

vars == <<op, arg, pc, result>>

(***************************************************************************)
(* Bounds of the model.                                                    *)
(***************************************************************************)
\* longest response payload drawn (a CAN frame body holds 8 bytes)
MaxLen == 8
\* positions fed to degrees_to_int range over -MaxDeg..MaxDeg degrees, in
\* quarters of a degree (12.5 rad is 716.2 degrees)
MaxDeg == 720
\* longest output of the bit-packing round trip, in bytes
MaxPackLen == 2

(***************************************************************************)
(* Integer helpers.                                                        *)
(***************************************************************************)
RECURSIVE Pow2(_)
Pow2(n) == IF n = 0 THEN 1 ELSE 2 * Pow2(n - 1)

Abs(x) == IF x < 0 THEN -x ELSE x

Min(a, b) == IF a < b THEN a ELSE b

Max(a, b) == IF a > b THEN a ELSE b

RECURSIVE Gcd(_, _)
Gcd(a, b) == IF b = 0 THEN a ELSE Gcd(b, a % b)

\* Python's msg[i]
At(msg, i) == msg[i + 1]

\* Python's msg[a:b] for 0 <= a <= b: never raises, cut at the end of msg
Slice(msg, a, b) == SubSeq(msg, a + 1, Min(b, Len(msg)))

\* Python's msg[a:]
SliceFrom(msg, a) == SubSeq(msg, a + 1, Len(msg))

(***************************************************************************)
(* Outcomes of a call.                                                     *)
(***************************************************************************)
NoResult == [kind |-> "pending"]

\* a returned value, with its Python type
Return(type, v) == [kind |-> "return", type |-> type, value |-> v]

Raise(e) == [kind |-> "raise", exc |-> e]

ReturnNone == [kind |-> "return", type |-> "NoneType", value |-> "None"]

(***************************************************************************)
(* Python floats.                                                          *)
(***************************************************************************)
Fin(n, d) ==
  LET g == Gcd(Abs(n), Abs(d))
      s == IF d < 0 THEN -1 ELSE 1
  IN [k |-> "fin", num |-> (s * n) \div g, den |-> (s * d) \div g]

F(n) == Fin(n, 1)

Inf(s) == [k |-> "inf", num |-> s, den |-> 0]

NaN == [k |-> "nan", num |-> 0, den |-> 0]

Sign(n) == IF n < 0 THEN -1 ELSE IF n > 0 THEN 1 ELSE 0

FAdd(x, y) ==
  IF x.k = "nan" \/ y.k = "nan" THEN NaN
  ELSE IF x.k = "inf" /\ y.k = "inf"
       THEN IF x.num = y.num THEN x ELSE NaN
  ELSE IF x.k = "inf" THEN x
  ELSE IF y.k = "inf" THEN y
  ELSE Fin(x.num * y.den + y.num * x.den, x.den * y.den)

FNeg(x) == [x EXCEPT !.num = -x.num]

FSub(x, y) == FAdd(x, FNeg(y))

FMul(x, y) ==
  IF x.k = "nan" \/ y.k = "nan" THEN NaN
  ELSE IF x.k = "inf" \/ y.k = "inf"
       THEN IF x.num = 0 \/ y.num = 0 THEN NaN
            ELSE Inf(Sign(x.num) * Sign(y.num))
  ELSE Fin(x.num * y.num, x.den * y.den)

\* division by a finite non-zero value, the only one the codec performs
FDiv(x, y) == FMul(x, [k |-> "fin", num |-> Sign(y.num) * y.den, den |-> Abs(y.num)])

(***************************************************************************)
(* bionic_responses.py                                                     *)
(***************************************************************************)
ERROR_MAP ==
  (0 :> "No Errors") @@ (1 :> "Motor Overheating") @@ (2 :> "Motor Overcurrent")
  @@ (3 :> "Motor Voltage too low") @@ (4 :> "Motor Encoder Error")
  @@ (6 :> "Motor brake voltage too high") @@ (7 :> "DRV Driver Error")

QUERY_MAP ==
  (0 :> "Reserved") @@ (1 :> "Angle") @@ (2 :> "Speed") @@ (3 :> "Current")
  @@ (4 :> "Power") @@ (5 :> "Accel") @@ (6 :> "Current Flux")

CONFIG_MAP ==
  (0 :> "Reserved") @@ (1 :> "Configuring System Acceleration")
  @@ (2 :> "Configuring Flux Observation Gain")
  @@ (3 :> "Configuring Damping Coefficient")

CONFIG_STATUS_MAP == (0 :> "Failure") @@ (1 :> "Success")

\* int.from_bytes(b, "big"); "big" is also the default byte order
RECURSIVE int_from_bytes(_)
int_from_bytes(b) ==
  IF Len(b) = 0 THEN 0
  ELSE 256 * int_from_bytes(SubSeq(b, 1, Len(b) - 1)) + b[Len(b)]

\* struct.unpack("!f", b)[0] for 4 bytes: the big-endian IEEE-754 single,
\* kept as its sign, biased exponent and fraction fields
unpack_f(b) ==
  [sign |-> b[1] \div 128,
   exponent |-> (b[1] % 128) * 2 + b[2] \div 128,
   fraction |-> (b[2] % 128) * 65536 + b[3] * 256 + b[4]]

\* a loop bound one short: range(1, 5)
MessageTypeRange_Mutant == 1..4

\* the range(1, 6) of get_message_type
MessageTypeRange == 1..5

\* get_message_type: msg[0] raises IndexError on an empty payload
get_message_type(msg) ==
  IF Len(msg) = 0 THEN Raise("IndexError")
  ELSE IF (At(msg, 0) \div 32) \in MessageTypeRange
       THEN Return("int", At(msg, 0) \div 32)
       ELSE Return("int", -1)

\* the helpers nested in position_speed_message
psm_get_position(data) == FSub(FMul(F(data), Fin(25, 65536)), Fin(25, 2))

psm_get_speed(data) == FSub(FMul(F(data), Fin(36, 4095)), F(18))

psm_get_current(data) == FSub(FMul(F(data), Fin(140, 4095)), F(70))

psm_get_temp(data) == FDiv(FSub(data, F(50)), F(2))

psm_get_mos_temp(data) == FDiv(FSub(data, F(50)), F(2))

\* Message Type 1
position_speed_message(msg) ==
  IF Len(msg) < 7 THEN Raise("IndexError")            \* msg[6]
  ELSE IF Len(msg) < 8 THEN Raise("IndexError")       \* msg[7]
  ELSE
    LET error == At(msg, 0) % 32
        motor_pos == int_from_bytes(Slice(msg, 1, 3))
        motor_speed == int_from_bytes(Slice(msg, 3, 5)) \div 16
        motor_current == int_from_bytes(Slice(msg, 4, 6)) % 4096
        motor_temp == FDiv(F(At(msg, 6) - 50), F(2))
        motor_mos_temp == FDiv(F(At(msg, 7) - 50), F(2))
    IN IF error \notin DOMAIN ERROR_MAP THEN Raise("KeyError")
       ELSE Return("dict",
              ("Message Type" :> 1) @@ ("Error" :> ERROR_MAP[error])
              @@ ("Position" :> psm_get_position(motor_pos))
              @@ ("Speed" :> psm_get_speed(motor_speed))
              @@ ("Current" :> psm_get_current(motor_current))
              @@ ("Temperature" :> psm_get_temp(motor_temp))
              @@ ("MOS" :> psm_get_mos_temp(motor_mos_temp)))

\* the helpers nested in position_message
pm_get_position(data) == data

pm_get_current(data) == FDiv(F(data), F(10))

\* the temperature byte passed through unscaled
pm_get_temp_Mutant(data) == F(data)

pm_get_temp(data) == FDiv(FSub(F(data), F(50)), F(2))

\* Message Type 2
position_message(msg) ==
  IF Len(Slice(msg, 1, 5)) # 4 THEN Raise("struct.error")  \* unpack("!f", msg[1:5])
  ELSE IF Len(msg) < 8 THEN Raise("IndexError")            \* msg[7]
  ELSE
    LET error == At(msg, 0) % 32
        motor_pos == unpack_f(Slice(msg, 1, 5))
        motor_current == int_from_bytes(Slice(msg, 5, 7))
        motor_temp == At(msg, 7)
    IN IF error \notin DOMAIN ERROR_MAP THEN Raise("KeyError")
       ELSE Return("dict",
              ("Message Type" :> 2) @@ ("Error" :> ERROR_MAP[error])
              @@ ("Position" :> pm_get_position(motor_pos))
              @@ ("Current" :> pm_get_current(motor_current))
              @@ ("Temperature" :> pm_get_temp(motor_temp)))

\* the helpers nested in speed_message
sm_get_speed(data) == data

sm_get_current(data) == FDiv(F(data), F(10))

sm_get_temp(data) == FDiv(FSub(F(data), F(50)), F(2))

\* Message Type 3
speed_message(msg) ==
  IF Len(Slice(msg, 1, 5)) # 4 THEN Raise("struct.error")  \* unpack("!f", msg[1:5])
  ELSE IF Len(msg) < 8 THEN Raise("IndexError")            \* msg[7]
  ELSE
    LET error == At(msg, 0) % 32
        motor_speed == unpack_f(Slice(msg, 1, 5))
        motor_current == int_from_bytes(Slice(msg, 5, 7))
        motor_temp == At(msg, 7)
    IN IF error \notin DOMAIN ERROR_MAP THEN Raise("KeyError")
       ELSE Return("dict",
              ("Message Type" :> 3) @@ ("Error" :> ERROR_MAP[error])
              @@ ("Speed" :> sm_get_speed(motor_speed))
              @@ ("Current" :> sm_get_current(motor_current))
              @@ ("Temperature" :> sm_get_temp(motor_temp)))

\* Message Type 4
configuration_message(msg) ==
  IF Len(msg) < 2 THEN Raise("IndexError")            \* msg[1]
  ELSE IF Len(msg) < 3 THEN Raise("IndexError")       \* msg[2]
  ELSE
    LET error == At(msg, 0) % 32
        configuration_code == At(msg, 1)
        configuration_status == At(msg, 2)
    IN IF error \notin DOMAIN ERROR_MAP THEN Raise("KeyError")
       ELSE IF configuration_code \notin DOMAIN CONFIG_MAP THEN Raise("KeyError")
       ELSE IF configuration_status \notin DOMAIN CONFIG_STATUS_MAP
            THEN Raise("KeyError")
       ELSE Return("dict",
              ("Message Type" :> 4) @@ ("Error" :> ERROR_MAP[error])
              @@ ("Configuration Code" :> CONFIG_MAP[configuration_code])
              @@ ("Configuration Status" :> CONFIG_STATUS_MAP[configuration_status]))

\* Message Type 5
custom_message(msg) ==
  IF Len(msg) < 2 THEN Raise("IndexError")            \* msg[1]
  ELSE IF Len(SliceFrom(msg, 2)) # 4 THEN Raise("struct.error")  \* unpack("!f", data)
  ELSE
    LET error == At(msg, 0) % 32
        query_code == At(msg, 1)
        data == unpack_f(SliceFrom(msg, 2))
    IN IF error \notin DOMAIN ERROR_MAP THEN Raise("KeyError")
       ELSE IF query_code \notin DOMAIN QUERY_MAP THEN Raise("KeyError")
       ELSE Return("dict",
              ("Message Type" :> 5) @@ ("Error" :> ERROR_MAP[error])
              @@ ("Query Code" :> QUERY_MAP[query_code])
              @@ ("Data" :> data))

\* the keys of MESSAGE_MAP
MESSAGE_MAP_KEYS == {1, 2, 3, 4, 5}

\* MESSAGE_MAP[message_type](msg)
MESSAGE_MAP(message_type, msg) ==
  CASE message_type = 1 -> position_speed_message(msg)
    [] message_type = 2 -> position_message(msg)
    [] message_type = 3 -> speed_message(msg)
    [] message_type = 4 -> configuration_message(msg)
    [] message_type = 5 -> custom_message(msg)

\* valid_message: the exception of get_message_type, or the membership
valid_message(msg) ==
  LET t == get_message_type(msg)
  IN IF t.kind = "raise" THEN t ELSE Return("bool", t.value \in MESSAGE_MAP_KEYS)

read_result(msg) ==
  LET message_type == get_message_type(msg)
  IN IF message_type.kind = "raise" THEN message_type
     ELSE LET valid == valid_message(msg)
          IN IF valid.kind = "raise" THEN valid
             ELSE IF valid.value THEN MESSAGE_MAP(message_type.value, msg)
             ELSE ReturnNone

(***************************************************************************)
(* bionic_commands.py: bitwise helpers.                                    *)
(***************************************************************************)
\* data & ((1 << num_bits) - 1), as num_bits bits, most significant first
\* (\div and % round down, as Python's >> and & do on negative integers)
RECURSIVE LowBits(_, _)
LowBits(data, num_bits) ==
  IF num_bits = 0 THEN <<>>
  ELSE Append(LowBits(data \div 2, num_bits - 1), data % 2)

\* the integer a bit sequence is the binary expansion of
RECURSIVE BitsValue(_)
BitsValue(bits) ==
  IF Len(bits) = 0 THEN 0
  ELSE 2 * BitsValue(SubSeq(bits, 1, Len(bits) - 1)) + bits[Len(bits)]

\* value <<= num_bits; value |= data & ((1 << num_bits) - 1)
push_bits(value, data, num_bits) == value \o LowBits(data, num_bits)

RECURSIVE Log2Floor(_)
Log2Floor(m) == IF m < 2 THEN 0 ELSE 1 + Log2Floor(m \div 2)

\* struct.unpack("I", struct.pack("f", data))[0]: the IEEE-754 single bit
\* pattern of data, as its high and low 16 bits. Finite values are dyadic
\* with fewer than 24 significant bits, so the conversion is exact.
float32_bits(data) ==
  IF data.k = "nan" THEN <<32704, 0>>
  ELSE IF data.k = "inf" THEN <<(IF data.num < 0 THEN 65408 ELSE 32640), 0>>
  ELSE IF data.num = 0 THEN <<0, 0>>
  ELSE LET m == Abs(data.num)
           e == Log2Floor(m)
           biased == e - Log2Floor(data.den) + 127
           fraction == (m - Pow2(e)) * Pow2(23 - e)
           s == IF data.num < 0 THEN 1 ELSE 0
       IN <<s * 32768 + biased * 128 + fraction \div 65536, fraction % 65536>>

\* push_bits(value, data_bits, 32), the 32 bits pushed as two halves
push_fp32_bits(value, data) ==
  LET data_bits == float32_bits(data)
  IN push_bits(push_bits(value, data_bits[1], 16), data_bits[2], 16)

\* command & 0xFF
LowByte(command) ==
  BitsValue(SubSeq(command, Max(1, Len(command) - 7), Len(command)))

\* command >> 8
ShiftRight8(command) == SubSeq(command, 1, Len(command) - 8)

\* the loop of split_into_bytes: the low byte first
RECURSIVE split_loop(_, _)
split_loop(command, length) ==
  IF length = 0 THEN <<>>
  ELSE <<LowByte(command)>> \o split_loop(ShiftRight8(command), length - 1)

\* bytes_list[::-1]
Reversed(s) == [i \in 1..Len(s) |-> s[Len(s) + 1 - i]]

\* the reversal of bytes_list left out
split_into_bytes_Mutant(command, length, little_endian) ==
  split_loop(command, length)

split_into_bytes(command, length, little_endian) ==
  LET bytes_list == split_loop(command, length)
  IN IF little_endian THEN Reversed(bytes_list) ELSE bytes_list

\* the exception int(x) raises on a float, or "none"
int_exc(x) ==
  IF x.k = "inf" THEN "OverflowError"
  ELSE IF x.k = "nan" THEN "ValueError"
  ELSE "none"

\* int(x) of a finite float: truncation toward zero
int_of(x) ==
  IF x.num >= 0 THEN x.num \div x.den ELSE -((-x.num) \div x.den)

\* the first exception the conversions int(x) raise, in evaluation order
RECURSIVE first_exc(_)
first_exc(xs) ==
  IF Len(xs) = 0 THEN "none"
  ELSE IF int_exc(Head(xs)) # "none" THEN int_exc(Head(xs))
  ELSE first_exc(Tail(xs))

(***************************************************************************)
(* bionic_commands.py: movement commands.                                  *)
(***************************************************************************)
set_position_control(position, motor_mode, max_speed, max_current, message_return) ==
  LET speed10 == FMul(max_speed, F(10))
      current10 == FMul(max_current, F(10))
      exc == first_exc(<<speed10, current10>>)
  IN IF exc # "none" THEN Raise(exc)
     ELSE LET c1 == push_bits(<<>>, motor_mode, 3)
              c2 == push_fp32_bits(c1, position)
              c3 == push_bits(c2, int_of(speed10), 15)
              c4 == push_bits(c3, int_of(current10), 12)
              c5 == push_bits(c4, message_return, 2)
          IN Return("list", split_into_bytes(c5, 8, TRUE))

set_speed_control(speed, motor_mode, current, message_return) ==
  LET current10 == FMul(current, F(10))
      exc == int_exc(current10)
  IN IF exc # "none" THEN Raise(exc)
     ELSE LET c1 == push_bits(<<>>, motor_mode, 3)
              c2 == push_bits(c1, 0, 3)
              c3 == push_bits(c2, message_return, 2)
              c4 == push_fp32_bits(c3, speed)
              c5 == push_bits(c4, int_of(current10), 16)
          IN Return("list", split_into_bytes(c5, 7, TRUE))

set_current_torque_control(value, control_status, motor_mode, message_return) ==
  LET value10 == FMul(value, F(10))
      exc == int_exc(value10)
  IN IF exc # "none" THEN Raise(exc)
     ELSE LET c1 == push_bits(<<>>, motor_mode, 3)
              c2 == push_bits(c1, control_status, 3)
              c3 == push_bits(c2, message_return, 2)
              c4 == push_bits(c3, int_of(value10), 16)
          IN Return("list", split_into_bytes(c4, 3, TRUE))

set_zero_position(motor_id) ==
  LET upper == motor_id \div 256
      lower == motor_id % 256
      c1 == push_bits(<<>>, upper, 8)
      c2 == push_bits(c1, lower, 8)
      c3 == push_bits(c2, 0, 8)
      c4 == push_bits(c3, 3, 8)
  IN Return("list", split_into_bytes(c4, 4, TRUE))

(***************************************************************************)
(* bionic_commands.py: motor information commands.                         *)
(***************************************************************************)
get_motor_pos ==
  Return("list",
    split_into_bytes(push_bits(push_bits(push_bits(<<>>, 7, 3), 0, 5), 1, 8), 2, TRUE))

get_motor_speed ==
  Return("list",
    split_into_bytes(push_bits(push_bits(push_bits(<<>>, 7, 3), 0, 5), 2, 8), 2, TRUE))

get_motor_current ==
  Return("list",
    split_into_bytes(push_bits(push_bits(push_bits(<<>>, 7, 3), 0, 5), 3, 8), 2, TRUE))

get_motor_power ==
  Return("list",
    split_into_bytes(push_bits(push_bits(push_bits(<<>>, 7, 3), 0, 5), 4, 8), 2, TRUE))

(***************************************************************************)
(* bionic_commands.py: motor feedback control commands.                    *)
(***************************************************************************)
\* math.radians(degrees): degrees * (pi / 180), with pi as 103993/33102
\* (exact to 6e-10, which gives int() the float's result on every position
\* the model draws)
math_radians(degrees) == FMul(degrees, Fin(103993, 33102 * 180))

\* int(x * 2^n) for a finite x: the product by a power of two is exact, and
\* its integer part is formed by doubling, without the wide numerator
RECURSIVE floor_mul_pow2(_, _, _, _)
floor_mul_pow2(quot, rem, den, n) ==
  IF n = 0 THEN <<quot, rem>>
  ELSE floor_mul_pow2(2 * quot + (2 * rem) \div den, (2 * rem) % den, den, n - 1)

int_of_mul_pow2(x, n) ==
  LET fl == floor_mul_pow2(x.num \div x.den, x.num % x.den, x.den, n)
  IN IF fl[1] < 0 /\ fl[2] > 0 THEN fl[1] + 1 ELSE fl[1]

\* the offset subtracted from: 12.5 - math.radians(degrees)
degrees_to_int_Mutant(degrees) ==
  LET x == FDiv(FSub(Fin(25, 2), math_radians(degrees)), F(25))
  IN IF int_exc(x) # "none" THEN Raise(int_exc(x))
     ELSE Return("int", Max(0, Min(65536, int_of_mul_pow2(x, 16))))

\* max(0, min(65536, int(((math.radians(degrees) + 12.5) / 25.0) * 65536)))
degrees_to_int(degrees) ==
  LET x == FDiv(FAdd(math_radians(degrees), Fin(25, 2)), F(25))
  IN IF int_exc(x) # "none" THEN Raise(int_exc(x))
     ELSE Return("int", Max(0, Min(65536, int_of_mul_pow2(x, 16))))

\* max(0, min(4095, int(((rpm + 18.0) / 36.0) * 4095)))
rpm_to_int(rpm) ==
  LET x == FMul(FDiv(FAdd(rpm, F(18)), F(36)), F(4095))
  IN IF int_exc(x) # "none" THEN Raise(int_exc(x))
     ELSE Return("int", Max(0, Min(4095, int_of(x))))

\* max(0, min(4095, int(((torque + 150) / 300) * 4095)))
torque_to_int(torque) ==
  LET x == FMul(FDiv(FAdd(torque, F(150)), F(300)), F(4095))
  IN IF int_exc(x) # "none" THEN Raise(int_exc(x))
     ELSE Return("int", Max(0, Min(4095, int_of(x))))

force_position_hybrid_control(kp, kd, position, speed, torque_ff) ==
  LET kp_f == FDiv(FMul(kp, F(4095)), F(500))
      kd_f == FDiv(FMul(kd, F(511)), F(5))
      pos == degrees_to_int(position)
      spd == rpm_to_int(speed)
      trq == torque_to_int(torque_ff)
  IN IF int_exc(kp_f) # "none" THEN Raise(int_exc(kp_f))
     ELSE IF int_exc(kd_f) # "none" THEN Raise(int_exc(kd_f))
     ELSE IF pos.kind = "raise" THEN pos
     ELSE IF spd.kind = "raise" THEN spd
     ELSE IF trq.kind = "raise" THEN trq
     ELSE LET c1 == push_bits(<<>>, 0, 3)
              c2 == push_bits(c1, int_of(kp_f), 12)
              c3 == push_bits(c2, int_of(kd_f), 9)
              c4 == push_bits(c3, pos.value, 16)
              c5 == push_bits(c4, spd.value, 12)
              c6 == push_bits(c5, trq.value, 12)
          IN Return("list", split_into_bytes(c6, 8, TRUE))

(***************************************************************************)
(* The pattern every encoder follows (set_position_control, lines 61-67):  *)
(* command = 0, one push_bits per field, then split_into_bytes.            *)
(***************************************************************************)
RECURSIVE push_fields(_, _)
push_fields(command, fields) ==
  IF Len(fields) = 0 THEN command
  ELSE push_fields(push_bits(command, Head(fields)[1], Head(fields)[2]), Tail(fields))

pack_fields(fields, length, little_endian) ==
  Return("list", split_into_bytes(push_fields(<<>>, fields), length, little_endian))

(***************************************************************************)
(* The inputs drawn.                                                       *)
(***************************************************************************)
\* error fields (msg[0] & 0x1F): codes ERROR_MAP defines and codes it does not
ErrorFields == {0, 4, 5, 7, 8, 31}

\* the values drawn for the byte at Python index i of a payload
ByteAt(i) ==
  CASE i = 0 -> {32 * t + e : t \in 0..7, e \in ErrorFields}
    [] i = 1 -> {0, 1, 4, 7}
    [] i = 2 -> {0, 1, 2}
    [] i = 3 -> {0, 247}
    [] i = 4 -> {36}
    [] i = 5 -> {125}
    [] i = 6 -> {0, 51, 255}
    [] i = 7 -> {0, 70, 255}
    [] OTHER -> {0}

RECURSIVE PayloadsOfLen(_)
PayloadsOfLen(n) ==
  IF n = 0 THEN {<<>>}
  ELSE {Append(p, b) : p \in PayloadsOfLen(n - 1), b \in ByteAt(n - 1)}

Payloads == UNION {PayloadsOfLen(n) : n \in 0..MaxLen}

\* the payloads classified alone: empty, and every value of byte 0
ClassifyPayloads ==
  {<<>>} \cup {<<b>> : b \in 0..255} \cup {<<b, c>> : b \in 0..255, c \in {0, 255}}

NonFinite == {Inf(1), Inf(-1), NaN}

PositionControlArgs ==
  [position : {F(0), Fin(-3, 2), Fin(1, 4), F(90)} \cup {Inf(1), NaN},
   motor_mode : {1, 9, -1},
   max_speed : {F(60), Fin(-29, 4), F(4000)} \cup {Inf(1), NaN},
   max_current : {F(5), F(500), Fin(-1, 4)} \cup {Inf(-1)},
   message_return : {0, 3, 6}]

SpeedControlArgs ==
  [speed : {F(0), Fin(-3, 2), Fin(1, 4), F(3000)} \cup {Inf(-1), NaN},
   motor_mode : {2, 10, -1},
   current : {F(5), F(7000), Fin(-1, 4)} \cup {Inf(1), NaN},
   message_return : {0, 3, 6}]

CurrentTorqueControlArgs ==
  [value : {F(0), F(-1), Fin(5, 4), F(7000), F(-7000)} \cup NonFinite,
   control_status : {0, 1, 7, 8},
   motor_mode : {3, 11, -1},
   message_return : {0, 3, 6}]

ZeroPositionArgs == [motor_id : {0, 1, 255, 256, 2047, 65535, 70000, -1}]

HybridControlArgs ==
  [kp : {F(15), F(500), F(600), F(-1)} \cup {Inf(1)},
   kd : {Fin(1, 2), F(5), F(6)} \cup {NaN},
   position : {F(-800), F(-90), F(0), Fin(1, 4), F(716), Fin(2865, 4), F(720)}
              \cup {Inf(1), NaN},
   speed : {F(0), F(-6), F(30)},
   torque_ff : {F(1), F(150), F(-200)}]

\* positions in quarters of a degree
DegreeArgs == {Fin(q, 4) : q \in (-4 * MaxDeg)..(4 * MaxDeg)}

\* field values drawn for a field of w bits: in range, and overflowing
FieldValues(w) == {0, 1, Pow2(w - 1), Pow2(w) - 1, Pow2(w) + 1}

\* the field lists of at most three fields whose widths are ws
FieldLists(ws) ==
  CASE Len(ws) = 1 -> {<<<<v1, ws[1]>>>> : v1 \in FieldValues(ws[1])}
    [] Len(ws) = 2 -> {<<<<v1, ws[1]>>, <<v2, ws[2]>>>> :
                         v1 \in FieldValues(ws[1]), v2 \in FieldValues(ws[2])}
    [] Len(ws) = 3 -> {<<<<v1, ws[1]>>, <<v2, ws[2]>>, <<v3, ws[3]>>>> :
                         v1 \in FieldValues(ws[1]), v2 \in FieldValues(ws[2]),
                         v3 \in FieldValues(ws[3])}

\* the field widths the encoders use (but 32), and a single bit
Widths == {1, 2, 3, 5, 8, 9, 12, 15, 16}

\* the widths of one to three fields that fill n bits
WidthLists(n) ==
  {<<n>>}
  \cup {<<a, n - a>> : a \in {w \in Widths : w < n}}
  \cup {<<ab[1], ab[2], n - ab[1] - ab[2]>> :
          ab \in {x \in Widths \X Widths : x[1] + x[2] < n}}

RECURSIVE SumWidths(_)
SumWidths(ws) == IF Len(ws) = 0 THEN 0 ELSE Head(ws) + SumWidths(Tail(ws))

PackArgs ==
  UNION {[fields : FieldLists(ws), length : {SumWidths(ws) \div 8},
          little_endian : BOOLEAN] :
           ws \in UNION {WidthLists(8 * len) : len \in 1..MaxPackLen}}

(***************************************************************************)
(* The calls.                                                              *)
(***************************************************************************)
Init ==
  /\ pc = "call"
  /\ result = NoResult
  /\ \/ op = "get_message_type" /\ arg \in ClassifyPayloads
     \/ op = "valid_message" /\ arg \in ClassifyPayloads
     \/ op = "read_result" /\ arg \in Payloads
     \/ op = "set_position_control" /\ arg \in PositionControlArgs
     \/ op = "set_speed_control" /\ arg \in SpeedControlArgs
     \/ op = "set_current_torque_control" /\ arg \in CurrentTorqueControlArgs
     \/ op = "set_zero_position" /\ arg \in ZeroPositionArgs
     \/ op \in {"get_motor_pos", "get_motor_speed", "get_motor_current",
                "get_motor_power"} /\ arg = <<>>
     \/ op = "force_position_hybrid_control" /\ arg \in HybridControlArgs
     \/ op = "degrees_to_int" /\ arg \in DegreeArgs
     \/ op = "pack_fields" /\ arg \in PackArgs

GetMessageType ==
  /\ pc = "call"
  /\ op = "get_message_type"
  /\ result' = get_message_type(arg)
  /\ pc' = "done"
  /\ UNCHANGED <<op, arg>>

ValidMessage ==
  /\ pc = "call"
  /\ op = "valid_message"
  /\ result' = valid_message(arg)
  /\ pc' = "done"
  /\ UNCHANGED <<op, arg>>

ReadResult ==
  /\ pc = "call"
  /\ op = "read_result"
  /\ result' = read_result(arg)
  /\ pc' = "done"
  /\ UNCHANGED <<op, arg>>

SetPositionControl ==
  /\ pc = "call"
  /\ op = "set_position_control"
  /\ result' = set_position_control(arg.position, arg.motor_mode, arg.max_speed,
                                  arg.max_current, arg.message_return)
  /\ pc' = "done"
  /\ UNCHANGED <<op, arg>>

SetSpeedControl ==
  /\ pc = "call"
  /\ op = "set_speed_control"
  /\ result' = set_speed_control(arg.speed, arg.motor_mode, arg.current,
                               arg.message_return)
  /\ pc' = "done"
  /\ UNCHANGED <<op, arg>>

SetCurrentTorqueControl ==
  /\ pc = "call"
  /\ op = "set_current_torque_control"
  /\ result' = set_current_torque_control(arg.value, arg.control_status,
                                        arg.motor_mode, arg.message_return)
  /\ pc' = "done"
  /\ UNCHANGED <<op, arg>>

SetZeroPosition ==
  /\ pc = "call"
  /\ op = "set_zero_position"
  /\ result' = set_zero_position(arg.motor_id)
  /\ pc' = "done"
  /\ UNCHANGED <<op, arg>>

GetMotorPos ==
  /\ pc = "call"
  /\ op = "get_motor_pos"
  /\ result' = get_motor_pos
  /\ pc' = "done"
  /\ UNCHANGED <<op, arg>>

GetMotorSpeed ==
  /\ pc = "call"
  /\ op = "get_motor_speed"
  /\ result' = get_motor_speed
  /\ pc' = "done"
  /\ UNCHANGED <<op, arg>>

GetMotorCurrent ==
  /\ pc = "call"
  /\ op = "get_motor_current"
  /\ result' = get_motor_current
  /\ pc' = "done"
  /\ UNCHANGED <<op, arg>>

GetMotorPower ==
  /\ pc = "call"
  /\ op = "get_motor_power"
  /\ result' = get_motor_power
  /\ pc' = "done"
  /\ UNCHANGED <<op, arg>>

ForcePositionHybridControl ==
  /\ pc = "call"
  /\ op = "force_position_hybrid_control"
  /\ result' = force_position_hybrid_control(arg.kp, arg.kd, arg.position,
                                           arg.speed, arg.torque_ff)
  /\ pc' = "done"
  /\ UNCHANGED <<op, arg>>

DegreesToInt ==
  /\ pc = "call"
  /\ op = "degrees_to_int"
  /\ result' = degrees_to_int(arg)
  /\ pc' = "done"
  /\ UNCHANGED <<op, arg>>

PackFields ==
  /\ pc = "call"
  /\ op = "pack_fields"
  /\ result' = pack_fields(arg.fields, arg.length, arg.little_endian)
  /\ pc' = "done"
  /\ UNCHANGED <<op, arg>>

Next ==
  \/ GetMessageType
  \/ ValidMessage
  \/ ReadResult
  \/ SetPositionControl
  \/ SetSpeedControl
  \/ SetCurrentTorqueControl
  \/ SetZeroPosition
  \/ GetMotorPos
  \/ GetMotorSpeed
  \/ GetMotorCurrent
  \/ GetMotorPower
  \/ ForcePositionHybridControl
  \/ DegreesToInt
  \/ PackFields

Spec == Init /\ [][Next]_vars

(***************************************************************************)
(* Vocabulary of the properties.                                           *)
(***************************************************************************)
Done(o) == pc = "done" /\ op = o

\* the type tag and the error field of a non-empty payload
TypeTag(msg) == At(msg, 0) \div 32

ErrorField(msg) == At(msg, 0) % 32

\* the payload length each response type requires
RequiredLength(t) == IF t \in {1, 2, 3} THEN 8 ELSE IF t = 4 THEN 3 ELSE 6

\* the descriptions of ERROR_MAP
ErrorDescriptions == {ERROR_MAP[e] : e \in DOMAIN ERROR_MAP}

ReturnedDict(r) == r.kind = "return" /\ r.type = "dict"

ReturnedNone(r) == r.kind = "return" /\ r.type = "NoneType"

ReturnedInt(r, n) == r.kind = "return" /\ r.type = "int" /\ r.value = n

\* the output lengths the encoders declare
DeclaredLength ==
  [o \in {"set_position_control", "set_speed_control", "set_current_torque_control",
          "set_zero_position", "get_motor_pos", "get_motor_speed",
          "get_motor_current", "get_motor_power", "force_position_hybrid_control"} |->
     CASE o \in {"set_position_control", "force_position_hybrid_control"} -> 8
       [] o = "set_speed_control" -> 7
       [] o = "set_current_torque_control" -> 3
       [] o = "set_zero_position" -> 4
       [] OTHER -> 2]

\* r is a returned list of n bytes
ReturnedBytes(r, n) ==
  /\ r.kind = "return"
  /\ r.type = "list"
  /\ Len(r.value) = n
  /\ \A i \in 1..n : r.value[i] \in 0..255

(***************************************************************************)
(* C1. Decoding a payload of sufficient length whose type tag is in 1..5   *)
(* and whose error field is a code ERROR_MAP does not define returns an    *)
(* explicit outcome: the call does not raise, it returns a result, and the *)
(* result does not carry the description of a defined code.                *)
(* The code raises KeyError at ERROR_MAP[error]: TLC finds this violated.  *)
(***************************************************************************)
C1_UnknownErrorCodeIsExplicit ==
  (/\ Done("read_result")
   /\ Len(arg) >= 1
   /\ TypeTag(arg) \in 1..5
   /\ Len(arg) >= RequiredLength(TypeTag(arg))
   /\ ErrorField(arg) \notin DOMAIN ERROR_MAP)
  => /\ result.kind = "return"
     /\ ~ReturnedNone(result)
     /\ ReturnedDict(result) => result.value["Error"] \notin ErrorDescriptions

(***************************************************************************)
(* C2. Decoding a non-empty payload whose type tag is in 1..5 and whose    *)
(* length is below the length its type requires yields an explicit error   *)
(* result: the call does not raise and returns no reading.                 *)
(* The code raises IndexError or struct.error: TLC finds this violated.    *)
(***************************************************************************)
C2_ShortPayloadIsExplicitError ==
  (/\ Done("read_result")
   /\ Len(arg) >= 1
   /\ TypeTag(arg) \in 1..5
   /\ Len(arg) < RequiredLength(TypeTag(arg)))
  => /\ result.kind = "return"
     /\ ~ReturnedDict(result)

(***************************************************************************)
(* C3. get_message_type of a zero-length payload returns the sentinel -1,  *)
(* and read_result of a zero-length payload returns the unrecognized       *)
(* outcome (None).                                                         *)
(* The code raises IndexError at msg[0]: TLC finds this violated.          *)
(***************************************************************************)
C3_EmptyPayloadIsUnrecognized ==
  /\ (Done("get_message_type") /\ Len(arg) = 0) => ReturnedInt(result, -1)
  /\ (Done("read_result") /\ Len(arg) = 0) => ReturnedNone(result)

(***************************************************************************)
(* C4. On a non-empty payload get_message_type returns t = byte0 >> 5 when *)
(* t is in 1..5 and -1 when t is 0, 6 or 7; read_result of a payload       *)
(* classified as unrecognized returns None, without raising.               *)
(***************************************************************************)
C4_ClassifyAndUnrecognized ==
  /\ (Done("get_message_type") /\ Len(arg) >= 1)
     => ReturnedInt(result, IF TypeTag(arg) \in 1..5 THEN TypeTag(arg) ELSE -1)
  /\ (Done("read_result") /\ Len(arg) >= 1 /\ TypeTag(arg) \notin 1..5)
     => ReturnedNone(result)

\* 0xA0 is classified as type 5
C4_Witness ==
  /\ Done("get_message_type")
  /\ arg = <<160>>
  /\ ReturnedInt(result, 5)

(***************************************************************************)
(* C5. Every encoder, on every argument value, returns exactly its         *)
(* declared number of bytes, each in 0..255.                               *)
(* The code raises OverflowError or ValueError when an argument it         *)
(* converts with int() is an infinity or a NaN: TLC finds this violated.   *)
(***************************************************************************)
C5_EncodersReturnDeclaredLength ==
  (pc = "done" /\ op \in DOMAIN DeclaredLength)
  => ReturnedBytes(result, DeclaredLength[op])

\* the float arguments each encoder converts with int()
ConvertedArgs ==
  [o \in DOMAIN DeclaredLength |->
     CASE o = "set_position_control" -> {"max_speed", "max_current"}
       [] o = "set_speed_control" -> {"current"}
       [] o = "set_current_torque_control" -> {"value"}
       [] o = "force_position_hybrid_control" ->
            {"kp", "kd", "position", "speed", "torque_ff"}
       [] OTHER -> {}]

\* What the code does instead: an encoder raises exactly when an argument it
\* converts with int() is not finite, and returns its declared length otherwise
\* (overflowing and negative values included).
EncodersRaiseOnlyOnNonFinite ==
  (pc = "done" /\ op \in DOMAIN DeclaredLength)
  => IF \E f \in ConvertedArgs[op] : arg[f].k # "fin"
     THEN result.kind = "raise"
     ELSE ReturnedBytes(result, DeclaredLength[op])

(***************************************************************************)
(* C6. For an 8-byte type-1 payload with a defined error code, the         *)
(* "Temperature" result is (byte 6 - 50) / 2 and the "MOS" result is       *)
(* (byte 7 - 50) / 2.                                                      *)
(* The code applies the formula twice: TLC finds this violated.            *)
(***************************************************************************)
C6_Type1TemperatureScaledOnce ==
  (/\ Done("read_result")
   /\ Len(arg) = 8
   /\ TypeTag(arg) = 1
   /\ ErrorField(arg) \in DOMAIN ERROR_MAP)
  => /\ ReturnedDict(result)
     /\ result.value["Temperature"] = Fin(At(arg, 6) - 50, 2)
     /\ result.value["MOS"] = Fin(At(arg, 7) - 50, 2)

(***************************************************************************)
(* C7, as stated. For an 8-byte type-2 or type-3 payload with a defined    *)
(* error code, the "Temperature" result is the raw value of byte 7.        *)
(* TLC finds this violated.                                                *)
(***************************************************************************)
C7_TemperatureIsRawByte ==
  (/\ Done("read_result")
   /\ Len(arg) = 8
   /\ TypeTag(arg) \in {2, 3}
   /\ ErrorField(arg) \in DOMAIN ERROR_MAP)
  => /\ ReturnedDict(result)
     /\ result.value["Temperature"] = F(At(arg, 7))

(***************************************************************************)
(* C7, amended. For an 8-byte type-2 or type-3 payload with a defined      *)
(* error code, the "Temperature" result is (byte 7 - 50) / 2: the offset   *)
(* and the halving are applied, once.                                      *)
(***************************************************************************)
C7_TemperatureIsOffsetAndHalved ==
  (/\ Done("read_result")
   /\ Len(arg) = 8
   /\ TypeTag(arg) \in {2, 3}
   /\ ErrorField(arg) \in DOMAIN ERROR_MAP)
  => /\ ReturnedDict(result)
     /\ result.value["Temperature"] = Fin(At(arg, 7) - 50, 2)

\* a type-2 payload whose byte 7 is 70 decodes to the temperature 10.0
C7_Witness ==
  /\ Done("read_result")
  /\ Len(arg) = 8
  /\ TypeTag(arg) = 2
  /\ ErrorField(arg) = 0
  /\ At(arg, 7) = 70
  /\ ReturnedDict(result)
  /\ result.value["Temperature"] = F(10)

(***************************************************************************)
(* C8. Bit-packing round trip: when every field value fits its width and   *)
(* the widths sum to 8 * length, pushing the fields in order onto a zero   *)
(* accumulator and splitting with the default byte order yields `length`   *)
(* bytes which, read as one big-endian integer, hold every field value at  *)
(* its bit offset and width.                                               *)
(***************************************************************************)
\* the widths of the fields after field i
RECURSIVE WidthAfter(_, _)
WidthAfter(fields, i) ==
  IF i >= Len(fields) THEN 0 ELSE fields[i + 1][2] + WidthAfter(fields, i + 1)

\* field i re-read from the integer n
ExtractField(n, fields, i) ==
  (n \div Pow2(WidthAfter(fields, i))) % Pow2(fields[i][2])

FieldsFit(fields) ==
  \A i \in 1..Len(fields) : 0 <= fields[i][1] /\ fields[i][1] < Pow2(fields[i][2])

C8_PackRoundTrip ==
  (/\ Done("pack_fields")
   /\ arg.little_endian
   /\ FieldsFit(arg.fields)
   /\ WidthAfter(arg.fields, 0) = 8 * arg.length)
  => /\ ReturnedBytes(result, arg.length)
     /\ \A i \in 1..Len(arg.fields) :
          ExtractField(int_from_bytes(result.value), arg.fields, i) = arg.fields[i][1]

\* the layout of get_motor_pos: 3 bits, 5 bits, 8 bits
C8_Witness ==
  /\ Done("pack_fields")
  /\ arg.little_endian
  /\ arg.fields = <<<<7, 3>>, <<0, 5>>, <<1, 8>>>>
  /\ result.kind = "return"
  /\ result.value = <<224, 1>>

(***************************************************************************)
(* C9. degrees_to_int returns an integer in 0..65536 and is monotonic      *)
(* non-decreasing in its input, for the positions whose radian value is in *)
(* [-12.5, 12.5] (and for those beyond, which the clamp holds at the       *)
(* bounds). The positions are a grid of quarter degrees, so monotonicity   *)
(* is that of every two neighbours.                                        *)
(***************************************************************************)
C9_DegreesToIntRangeMonotone ==
  Done("degrees_to_int")
  => /\ result.kind = "return"
     /\ result.type = "int"
     /\ result.value \in 0..65536
     /\ LET below == degrees_to_int(FSub(arg, Fin(1, 4)))
        IN below.kind = "return" /\ below.value <= result.value

\* 716 degrees is 12.4966 rad: in range, just under the upper clamp
C9_Witness ==
  /\ Done("degrees_to_int")
  /\ arg = F(716)
  /\ ReturnedInt(result, 65526)

(***************************************************************************)
(* C10. In force_position_hybrid_control the 16-bit position field emitted *)
(* (output bytes 3 and 4, big-endian) equals degrees_to_int(position).     *)
(* The clamp's upper bound 65536 does not fit 16 bits and is emitted as 0: *)
(* TLC finds this violated.                                                *)
(***************************************************************************)
C10_EmittedPositionIsClamped ==
  (Done("force_position_hybrid_control") /\ result.kind = "return")
  => At(result.value, 3) * 256 + At(result.value, 4)
       = degrees_to_int(arg.position).value

====
